---- MODULE Spec2Model ----
(***************************************************************************)
(* The research workflow of AI-NEWS: one ResearchProject row, the          *)
(* orchestrator thread (WorkflowManager.start_research_workflow), one      *)
(* analyst thread per generated analyst (_conduct_analyst_interviews,      *)
(* _conduct_single_interview), the review gate (_wait_for_human_review),   *)
(* the report compiler (_generate_final_report) and the web handlers that  *)
(* write the project (human_intervention, generate_report).                *)
(*                                                                         *)
(* Every commit is one atomic write of the store.  A handler of routes.py  *)
(* that calls no generator is one step; generate_report calls the          *)
(* generator between its checks and its write and is two steps.  The       *)
(* generators of ai_agents.py are an environment: each call returns one of *)
(* the shapes its code can return (a result, its caught-failure fallback,  *)
(* or parsed JSON of the wrong shape, which makes the caller raise).       *)
(***************************************************************************)
EXTENDS Integers, Sequences, FiniteSets, TLC

\* ------------------------------------------------------------ bounds
\* Spec, the whole life of a project: analysts a roster may hold, experts an
\* analyst's roster may hold
LifeAnalysts == 1
LifeExperts == 1
\* FanOutSpec, the fan-out and the join: a roster holds up to one analyst per
\* id of AnalystIds, an analyst's roster up to MaxExperts experts
MaxExperts == 2
\* the timeout argument of _wait_for_human_review, in time units; the caller
\* passes 300 (workflow_manager.py:75), scaled here to a few poll intervals
ReviewTimeout == 20
\* TimedSpec: the readings of the clock (datetime.utcnow) run from 0 to MaxClock
MaxClock == 2
\* ScoreSpec: the report is compiled from at most MaxScored interviews
MaxScored == 3

\* ------------------------------------------------------------ program constants
\* time.sleep(10) of the review gate
PollInterval == 10

NULL == "null"

\* the None of the nullable DateTime column Interview.completed_at
NoTime == -1

\* the None of Expert.query...first(): Expert ids are pairs <<thread, item>>
NoExpert == <<0, 0>>

\* the history of a run in which no stop was written since the gate began
NoStop == [at |-> 0, from |-> NULL, gate |-> FALSE]

\* ids of the Analyst rows a project can have
AnalystIds == {1, 2}
\* positions of an analyst's interviews
InterviewSlots == 1..(IF LifeExperts > MaxExperts THEN LifeExperts ELSE MaxExperts)

\* Expert natural keys (name, expertise_area) a roster may name.
ExpertKeys == {"e1"}
\* an element of experts_data that is not a dict: .get raises AttributeError
BadItem == "bad"

\* request.form 'notes' after strip(): "" is falsy
NoteInputs == {"", "n1"}
\* request.form 'action'
ActionInputs == {"approve", "modify", "stop"}

\* overall_credibility values are kept in tenths: ScoreUnit is the score 1.0
ScoreUnit == 10
\* what credibility_data.get('overall_credibility') gives for an assessment
\* that did not parse or has no such key: None
NoScore == -1
\* the scores an assessment can parse to: 0.0, 0.5, 1.0, or none
ScoreInputs == {NoScore, 0, 5, ScoreUnit}

VARIABLES
    status,         \* ResearchProject.status
    final_report,   \* ResearchProject.final_report
    human_notes,    \* ResearchProject.human_notes
    analysts,       \* Analyst rows: id -> status, NULL when the row does not exist
    experts,        \* Expert rows: set of [id, key]
    interviews,     \* Interview rows: analyst id -> rows in creation order
    oPC,            \* orchestrator thread: position in start_research_workflow
                    \*   ("done": returned at line 85; "aborted": by the handler
                    \*   of lines 87-95)
    nThreads,       \* len(analysts) of the orchestrator: threads to start
    launched,       \* threads started so far (loop of lines 57-63)
    wPC,            \* analyst thread: position in _conduct_analyst_interviews
    wRoster,        \* analyst thread: experts_data
    wExpert,        \* analyst thread: result of the Expert lookup (.first())
    elapsed,        \* review gate: time.time() - start_time
    rPC,            \* generate_report request in flight: "idle" | "generating"
    reportCalls,    \* history: invocations of _generate_final_report
    firstStop,      \* history: the first stop written since the gate began
    rosterFailed,   \* history: the analysts whose generate_experts call failed
    now,            \* the clock: what datetime.utcnow() returns
    all_interviews, \* generate_final_report: per interview, the
                    \*   overall_credibility its assessment parses to
    avg_credibility \* generate_final_report: the aggregate score

vars == <<status, final_report, human_notes, analysts, experts, interviews,
          oPC, nThreads, launched, wPC, wRoster, wExpert, elapsed, rPC,
          reportCalls, firstStop, rosterFailed, now,
          all_interviews, avg_credibility>>

projectVars == <<status, final_report, human_notes>>
workerVars == <<analysts, experts, interviews, wPC, wRoster, wExpert>>
orchVars == <<oPC, nThreads, launched, elapsed>>
histVars == <<reportCalls, firstStop, rosterFailed>>
scoreVars == <<all_interviews, avg_credibility>>

\* ------------------------------------------------------------ the store
ProjectId == 1

\* mutant of NewInterview: the row is attributed to the first analyst of the
\* project, whichever thread creates it
NewInterviewFirstAnalyst(a, eid) ==
    [project_id |-> ProjectId, analyst_id |-> 1, expert_id |-> eid,
     status |-> "scheduled", credibility_assessment |-> NULL,
     created_at |-> now, completed_at |-> NoTime, runs |-> 0]

\* Interview(project_id, analyst_id, expert_id, status='scheduled'); runs is
\* history: the calls of _conduct_single_interview for the row
NewInterview(a, eid) ==
    [project_id |-> ProjectId, analyst_id |-> a, expert_id |-> eid,
     status |-> "scheduled", credibility_assessment |-> NULL,
     created_at |-> now, completed_at |-> NoTime, runs |-> 0]

\* mutant of CompletedInterviews: the query does not filter on the status
AnyInterviews ==
    {<<a, k>> \in AnalystIds \X InterviewSlots : k <= Len(interviews[a])}

\* Interview.query.filter_by(project_id=project_id, status='completed').all()
CompletedInterviews ==
    {<<a, k>> \in AnalystIds \X InterviewSlots :
        k <= Len(interviews[a]) /\ interviews[a][k].status = "completed"}

\* Expert.query.filter_by(name=..., expertise_area=...): the rows of one key
ExpertsWithKey(key) == {e \in experts : e.key = key}

\* what json.loads of a report answer can be: a report, the fixed dict of the
\* generator's except branch, or a falsy value ({} or [])
ReportOutcomes == {"generated", "fallback", "empty"}

\* experts_data: any list of at most n items
RECURSIVE SeqsUpTo(_, _)
SeqsUpTo(S, n) ==
    IF n = 0 THEN {<<>>}
    ELSE LET shorter == SeqsUpTo(S, n - 1)
         IN  shorter \cup {Append(q, x) : q \in shorter, x \in S}

\* well-formed items, or well-formed items up to one that is not (the loop
\* of line 114 reads nothing after the item that raises)
Rosters(n) ==
    SeqsUpTo(ExpertKeys, n)
        \cup (IF n = 0 THEN {}
              ELSE {Append(q, BadItem) : q \in SeqsUpTo(ExpertKeys, n - 1)})

\* the positions of start_research_workflow from the review gate on
ReviewPCs == {"gate_check", "gate_sleep", "gate_final", "post_gate",
              "compile_read", "compile_gen", "finish"}
\* the positions inside _wait_for_human_review
GatePCs == {"gate_check", "gate_sleep", "gate_final"}

WorkflowInit ==
    /\ status = "initialized"
    /\ final_report = NULL
    /\ human_notes = NULL
    /\ analysts = [a \in AnalystIds |-> NULL]
    /\ experts = {}
    /\ interviews = [a \in AnalystIds |-> <<>>]
    /\ oPC = "start"
    /\ nThreads = 0
    /\ launched = 0
    /\ wPC = [a \in AnalystIds |-> "idle"]
    /\ wRoster = [a \in AnalystIds |-> <<>>]
    /\ wExpert = [a \in AnalystIds |-> NoExpert]
    /\ elapsed = 0
    /\ rPC = "idle"
    /\ reportCalls = 0
    /\ firstStop = NoStop
    /\ rosterFailed = {}
    /\ now = 0

\* avg_credibility before generate_final_report has computed it
NotComputed == [num |-> -1, den |-> 1]

Init ==
    /\ WorkflowInit
    /\ all_interviews = <<>>
    /\ avg_credibility = NotComputed

\* ------------------------------------------------------------ orchestrator
\* lines 23-32: project.status = 'analyzing'; commit
StartWorkflow ==
    /\ oPC = "start"
    /\ status' = "analyzing"
    /\ oPC' = "gen_analysts"
    /\ UNCHANGED <<final_report, human_notes, nThreads, launched, elapsed, rPC>>
    /\ UNCHANGED workerVars
    /\ UNCHANGED histVars
    /\ UNCHANGED now
    /\ UNCHANGED scoreVars

\* how the call of line 34 and the loop of lines 37-45 can end:
\*   "none":   analysts_data is a list of dicts;
\*   "caught": the generator failed; its except branch (ai_agents.py lines
\*             49-51) logged the failure and returned [];
\*   "raised": an item of analysts_data is not a dict and analyst_data.get
\*             raises at line 40
AnalystFaults == {"none", "caught", "raised"}

\* mutant of AfterRoster: the handler of lines 87-95 logs and the workflow
\* goes on
AfterRosterGoesOn(fault) == "set_interviewing"

\* the position of the orchestrator after lines 34-47: an exception leaves
\* the try block for the handler of lines 87-95, after which the thread ends
AfterRoster(fault) == IF fault = "raised" THEN "aborted" ELSE "set_interviewing"

\* lines 92-93: the handler writes 'error'
StatusAfterRoster(fault, st) == IF fault = "raised" THEN "error" ELSE st

\* lines 34-47 with a roster of n well-formed items.  When an item raises,
\* the handler's commit persists the analysts added so far with the status.
GenerateAnalystsAs(maxN, n, fault) ==
    /\ oPC = "gen_analysts"
    /\ fault = "caught" => n = 0
    /\ fault = "raised" => n < maxN
    /\ analysts' = [a \in AnalystIds |-> IF a <= n THEN "assigned" ELSE NULL]
    /\ status' = StatusAfterRoster(fault, status)
    /\ oPC' = AfterRoster(fault)
    /\ nThreads' = IF fault = "raised" THEN 0 ELSE n
    /\ UNCHANGED <<final_report, human_notes, launched, elapsed, rPC>>
    /\ UNCHANGED <<experts, interviews, wPC, wRoster, wExpert>>
    /\ UNCHANGED histVars
    /\ UNCHANGED now
    /\ UNCHANGED scoreVars

\* lines 34-47: n Analyst rows from analysts_data
GenerateAnalysts(maxN) ==
    \E n \in 0..maxN, fault \in AnalystFaults : GenerateAnalystsAs(maxN, n, fault)

\* lines 51-52: project.status = 'interviewing'; commit
SetInterviewing ==
    /\ oPC = "set_interviewing"
    /\ status' = "interviewing"
    /\ oPC' = IF nThreads = 0 THEN "join" ELSE "launch"
    /\ UNCHANGED <<final_report, human_notes, nThreads, launched, elapsed, rPC>>
    /\ UNCHANGED workerVars
    /\ UNCHANGED histVars
    /\ UNCHANGED now
    /\ UNCHANGED scoreVars

\* lines 57-63: one thread per analyst, started in roster order
LaunchThread ==
    /\ oPC = "launch"
    /\ launched < nThreads
    /\ launched' = launched + 1
    /\ wPC' = [wPC EXCEPT ![launched + 1] = "gen_experts"]
    /\ oPC' = IF launched + 1 = nThreads THEN "join" ELSE "launch"
    /\ UNCHANGED <<nThreads, elapsed, rPC>>
    /\ UNCHANGED projectVars
    /\ UNCHANGED <<analysts, experts, interviews, wRoster, wExpert>>
    /\ UNCHANGED histVars
    /\ UNCHANGED now
    /\ UNCHANGED scoreVars

\* a thread has returned from _conduct_analyst_interviews
Terminated(a) == wPC[a] \in {"done", "failed"}

\* mutant of Joined: the threads are started and never joined
JoinedNoWait == TRUE
\* mutant of Joined: the join returns only for a thread that raised nothing
JoinedOnlySuccessful == \A a \in 1..nThreads : wPC[a] = "done"

\* lines 66-67: thread.join() of every started thread has returned
Joined == \A a \in 1..nThreads : Terminated(a)

JoinThreads ==
    /\ oPC = "join"
    /\ Joined
    /\ oPC' = "set_reviewing"
    /\ UNCHANGED <<nThreads, launched, elapsed, rPC>>
    /\ UNCHANGED projectVars
    /\ UNCHANGED workerVars
    /\ UNCHANGED histVars
    /\ UNCHANGED now
    /\ UNCHANGED scoreVars

\* mutant of SetReviewing: a project found stopped after the join is left
\* stopped and the workflow ends
SetReviewingUnlessStopped ==
    /\ oPC = "set_reviewing"
    /\ IF status = "stopped"
         THEN /\ status' = status
              /\ oPC' = "done"
         ELSE /\ status' = "reviewing"
              /\ oPC' = "gate_check"
    /\ elapsed' = 0
    /\ UNCHANGED <<final_report, human_notes, nThreads, launched, rPC>>
    /\ UNCHANGED workerVars
    /\ UNCHANGED histVars
    /\ UNCHANGED now
    /\ UNCHANGED scoreVars

\* lines 70-72: project.status = 'reviewing'; commit; line 216: start_time
SetReviewing ==
    /\ oPC = "set_reviewing"
    /\ status' = "reviewing"
    /\ elapsed' = 0
    /\ oPC' = "gate_check"
    /\ UNCHANGED <<final_report, human_notes, nThreads, launched, rPC>>
    /\ UNCHANGED workerVars
    /\ UNCHANGED histVars
    /\ UNCHANGED now
    /\ UNCHANGED scoreVars

\* ------------------------------------------------------------ review gate
\* mutant of GateBreaks: the poll notices an approval only
GateBreaksOnApproval(st) == st = "completed"

\* line 221: the poll leaves the loop when the status read is not 'reviewing'
GateBreaks(st) == st # "reviewing"

\* lines 218-222: the loop test, then one read of the status
GateCheck ==
    /\ oPC = "gate_check"
    /\ oPC' = IF elapsed < ReviewTimeout
                THEN IF GateBreaks(status) THEN "gate_final" ELSE "gate_sleep"
                ELSE "gate_final"
    /\ UNCHANGED <<nThreads, launched, elapsed, rPC>>
    /\ UNCHANGED projectVars
    /\ UNCHANGED workerVars
    /\ UNCHANGED histVars
    /\ UNCHANGED now
    /\ UNCHANGED scoreVars

\* mutant of GateSleep: the time slept is not counted against the timeout
GateSleepForever ==
    /\ oPC = "gate_sleep"
    /\ oPC' = "gate_check"
    /\ UNCHANGED <<nThreads, launched, elapsed, rPC>>
    /\ UNCHANGED projectVars
    /\ UNCHANGED workerVars
    /\ UNCHANGED histVars
    /\ UNCHANGED now
    /\ UNCHANGED scoreVars

\* line 223: time.sleep(10)
GateSleep ==
    /\ oPC = "gate_sleep"
    /\ elapsed' = elapsed + PollInterval
    /\ oPC' = "gate_check"
    /\ UNCHANGED <<nThreads, launched, rPC>>
    /\ UNCHANGED projectVars
    /\ UNCHANGED workerVars
    /\ UNCHANGED histVars
    /\ UNCHANGED now
    /\ UNCHANGED scoreVars

\* mutant of GateReturn: the gate itself forces 'completed' on a timeout
GateReturnForcesCompleted ==
    /\ oPC = "gate_final"
    /\ oPC' = "post_gate"
    /\ status' = IF status = "reviewing" THEN "completed" ELSE status
    /\ UNCHANGED <<nThreads, launched, elapsed, rPC>>
    /\ UNCHANGED <<final_report, human_notes>>
    /\ UNCHANGED workerVars
    /\ UNCHANGED histVars
    /\ UNCHANGED now
    /\ UNCHANGED scoreVars

\* lines 226-229: a last read, for the log line only; the gate returns
GateReturn ==
    /\ oPC = "gate_final"
    /\ oPC' = "post_gate"
    /\ UNCHANGED <<nThreads, launched, elapsed, rPC>>
    /\ UNCHANGED projectVars
    /\ UNCHANGED workerVars
    /\ UNCHANGED histVars
    /\ UNCHANGED now
    /\ UNCHANGED scoreVars

\* ------------------------------------------------------------ report compiler
\* mutant of SkipsReport: the report is compiled after an approval only
SkipsUnlessApproved(st) == st # "completed"

\* line 79: the report is compiled unless the status read is 'stopped'
SkipsReport(st) == st = "stopped"

\* lines 78-80: re-read the project, then call _generate_final_report or not
AfterGate ==
    /\ oPC = "post_gate"
    /\ IF SkipsReport(status)
         THEN /\ oPC' = "done"
              /\ reportCalls' = reportCalls
         ELSE /\ oPC' = "compile_read"
              /\ reportCalls' = reportCalls + 1
    /\ UNCHANGED <<nThreads, launched, elapsed, rPC, firstStop, rosterFailed>>
    /\ UNCHANGED projectVars
    /\ UNCHANGED workerVars
    /\ UNCHANGED now
    /\ UNCHANGED scoreVars

\* mutant of CompileRead: the generator is called whatever the interviews
CompileReadAlwaysGenerates ==
    /\ oPC = "compile_read"
    /\ oPC' = "compile_gen"
    /\ UNCHANGED <<nThreads, launched, elapsed, rPC>>
    /\ UNCHANGED projectVars
    /\ UNCHANGED workerVars
    /\ UNCHANGED histVars
    /\ UNCHANGED now
    /\ UNCHANGED scoreVars

\* lines 237-245: no completed interview: status 'completed', no report
CompileRead ==
    /\ oPC = "compile_read"
    /\ IF CompletedInterviews = {}
         THEN /\ status' = "completed"
              /\ oPC' = "finish"
         ELSE /\ status' = status
              /\ oPC' = "compile_gen"
    /\ UNCHANGED <<final_report, human_notes, nThreads, launched, elapsed, rPC>>
    /\ UNCHANGED workerVars
    /\ UNCHANGED histVars
    /\ UNCHANGED now
    /\ UNCHANGED scoreVars

\* mutant of StoreReport: only a report the generator produced is stored
StoreReportDropsFallback(out, old) ==
    IF out \in {"empty", "fallback"} THEN old ELSE out

\* lines 256-266: a truthy report_data is stored; the status is 'completed'
\* on both branches
StoreReport(out, old) == IF out = "empty" THEN old ELSE out

\* lines 250-266 for one answer of the generator
CompileWriteAs(out) ==
    /\ oPC = "compile_gen"
    /\ final_report' = StoreReport(out, final_report)
    /\ status' = "completed"
    /\ oPC' = "finish"
    /\ UNCHANGED <<human_notes, nThreads, launched, elapsed, rPC>>
    /\ UNCHANGED workerVars
    /\ UNCHANGED histVars
    /\ UNCHANGED now
    /\ UNCHANGED scoreVars

\* lines 250-266
CompileWrite == \E out \in ReportOutcomes : CompileWriteAs(out)

\* lines 81-83: project.status = 'completed'; commit
FinishWorkflow ==
    /\ oPC = "finish"
    /\ status' = "completed"
    /\ oPC' = "done"
    /\ UNCHANGED <<final_report, human_notes, nThreads, launched, elapsed, rPC>>
    /\ UNCHANGED workerVars
    /\ UNCHANGED histVars
    /\ UNCHANGED now
    /\ UNCHANGED scoreVars

\* ------------------------------------------------------------ analyst thread
\* how the call of line 112 can end:
\*   "none":   generate_experts returned its parsed answer;
\*   "caught": it failed; its except branch (ai_agents.py lines 90-92) logged
\*             the failure and returned []
ExpertFaults == {"none", "caught"}

\* lines 103-112: experts_data = generate_experts(...), for one way the call
\* ends
GenerateExpertsAs(a, r, fault) ==
    /\ wPC[a] = "gen_experts"
    /\ fault = "caught" => r = <<>>
    /\ wRoster' = [wRoster EXCEPT ![a] = r]
    /\ rosterFailed' = IF fault = "caught" THEN rosterFailed \cup {a}
                                          ELSE rosterFailed
    /\ wPC' = [wPC EXCEPT ![a] = "loop"]
    /\ UNCHANGED <<analysts, experts, interviews, wExpert>>
    /\ UNCHANGED projectVars
    /\ UNCHANGED <<oPC, nThreads, launched, elapsed, rPC>>
    /\ UNCHANGED <<reportCalls, firstStop>>
    /\ UNCHANGED now
    /\ UNCHANGED scoreVars

\* lines 103-112
GenerateExperts(a, maxE) ==
    \E r \in Rosters(maxE), fault \in ExpertFaults : GenerateExpertsAs(a, r, fault)

\* line 114: the loop has created one interview per item it has passed
RosterDone(a) == Len(interviews[a]) >= Len(wRoster[a])
\* expert_data of the iteration the thread is in
CurrentItem(a) == wRoster[a][Len(interviews[a]) + 1]

\* lines 116-119: Expert.query.filter_by(...).first(): some row of the key
\* (no ORDER BY), None when there is none
LookupExpert(a) ==
    /\ wPC[a] = "loop"
    /\ ~RosterDone(a)
    /\ CurrentItem(a) # BadItem
    /\ LET found == ExpertsWithKey(CurrentItem(a))
       IN  IF found = {}
             THEN wExpert' = [wExpert EXCEPT ![a] = NoExpert]
             ELSE \E e \in found : wExpert' = [wExpert EXCEPT ![a] = e.id]
    /\ wPC' = [wPC EXCEPT ![a] = "create"]
    /\ UNCHANGED <<analysts, experts, interviews, wRoster>>
    /\ UNCHANGED projectVars
    /\ UNCHANGED <<oPC, nThreads, launched, elapsed, rPC>>
    /\ UNCHANGED histVars
    /\ UNCHANGED now
    /\ UNCHANGED scoreVars

\* lines 121-129: the Expert row is inserted when the lookup found none
ExpertsAfterCreate(a, found, key) ==
    IF found = NoExpert
      THEN experts \cup {[id |-> <<a, Len(interviews[a]) + 1>>, key |-> key]}
      ELSE experts

\* mutant of CreateInterview: the interview is left to run on its own and
\* the loop goes on to the next expert at once
CreateInterviewDetached(a) ==
    /\ wPC[a] = "create"
    /\ experts' = ExpertsAfterCreate(a, wExpert[a], CurrentItem(a))
    /\ LET eid == IF wExpert[a] = NoExpert
                    THEN <<a, Len(interviews[a]) + 1>>
                    ELSE wExpert[a]
       IN  interviews' = [interviews EXCEPT ![a] = Append(@, NewInterview(a, eid))]
    /\ wPC' = [wPC EXCEPT ![a] = "loop"]
    /\ UNCHANGED <<analysts, wRoster, wExpert>>
    /\ UNCHANGED projectVars
    /\ UNCHANGED <<oPC, nThreads, launched, elapsed, rPC>>
    /\ UNCHANGED histVars
    /\ UNCHANGED now
    /\ UNCHANGED scoreVars

\* lines 121-139: the expert, then the Interview row with status 'scheduled'
CreateInterview(a) ==
    /\ wPC[a] = "create"
    /\ experts' = ExpertsAfterCreate(a, wExpert[a], CurrentItem(a))
    /\ LET eid == IF wExpert[a] = NoExpert
                    THEN <<a, Len(interviews[a]) + 1>>
                    ELSE wExpert[a]
       IN  interviews' = [interviews EXCEPT ![a] = Append(@, NewInterview(a, eid))]
    /\ wPC' = [wPC EXCEPT ![a] = "begin"]
    /\ UNCHANGED <<analysts, wRoster, wExpert>>
    /\ UNCHANGED projectVars
    /\ UNCHANGED <<oPC, nThreads, launched, elapsed, rPC>>
    /\ UNCHANGED histVars
    /\ UNCHANGED now
    /\ UNCHANGED scoreVars

\* mutant of SetInterview: the assignment is not committed before line 164
SetInterviewNotPersisted(a, f, v) == interviews

\* the Interview row _conduct_single_interview works on: the analyst's latest
SetInterview(a, f, v) ==
    [interviews EXCEPT ![a][Len(interviews[a])] = [@ EXCEPT ![f] = v]]

\* lines 156-161: interview.status = 'in_progress'; commit
BeginInterview(a) ==
    /\ wPC[a] = "begin"
    /\ interviews' = [SetInterview(a, "status", "in_progress")
                          EXCEPT ![a][Len(interviews[a])].runs = @ + 1]
    /\ wPC' = [wPC EXCEPT ![a] = "run"]
    /\ UNCHANGED <<analysts, experts, wRoster, wExpert>>
    /\ UNCHANGED projectVars
    /\ UNCHANGED <<oPC, nThreads, launched, elapsed, rPC>>
    /\ UNCHANGED histVars
    /\ UNCHANGED now
    /\ UNCHANGED scoreVars

\* what the three generator calls of lines 164-181 leave to lines 184-196:
\* "generated": analyze_credibility returned its parsed answer, a dict;
\* "fallback":  analyze_credibility failed and returned its fixed dict;
\* "raise":     a parsed answer of the wrong shape (responses that are not
\*              dicts, an assessment that is a list) raises at lines 186-192
InterviewOutcomes == {"generated", "fallback", "raise"}

\* mutant of InterviewResult: the fallback assessment is not stored, the
\* interview is given up
InterviewResultFallbackAborts(row, out) ==
    IF out \in {"raise", "fallback"}
      THEN [row EXCEPT !.status = "error"]
      ELSE [row EXCEPT !.status = "completed", !.credibility_assessment = out,
                       !.completed_at = now]

\* mutant of InterviewResult: completed_at is stamped when the run ends,
\* however it ends
InterviewResultStampsError(row, out) ==
    IF out = "raise"
      THEN [row EXCEPT !.status = "error", !.completed_at = now]
      ELSE [row EXCEPT !.status = "completed", !.credibility_assessment = out,
                       !.completed_at = now]

\* lines 183-196 on success, lines 199-208 on an exception
InterviewResult(row, out) ==
    IF out = "raise"
      THEN [row EXCEPT !.status = "error"]
      ELSE [row EXCEPT !.status = "completed", !.credibility_assessment = out,
                       !.completed_at = now]

\* how the calls of lines 164-175 can end:
\*   "none":   generate_interview_questions and conduct_interview returned
\*             their parsed answers;
\*   "caught": one of them failed; its except branch (ai_agents.py lines
\*             134-136, 185-187) logged the failure and returned [], which
\*             lines 184-196 store like any other list (the columns questions
\*             and responses are not part of the model)
QAFaults == {"none", "caught"}

\* mutant of AfterRun: an interview that ended in error is run again
AfterRunRetries(out) == IF out = "raise" THEN "begin" ELSE "loop"

\* line 142 returns, however the interview ended: the loop of line 114 goes on
AfterRun(out) == "loop"

\* lines 164-210 for one way the generator calls end, then back to the loop
\* of line 114
RunInterviewAs(a, qa, out) ==
    /\ wPC[a] = "run"
    /\ interviews' = [interviews EXCEPT ![a][Len(interviews[a])] =
                          InterviewResult(@, out)]
    /\ wExpert' = [wExpert EXCEPT ![a] = NoExpert]
    /\ wPC' = [wPC EXCEPT ![a] = AfterRun(out)]
    /\ UNCHANGED <<analysts, experts, wRoster>>
    /\ UNCHANGED projectVars
    /\ UNCHANGED <<oPC, nThreads, launched, elapsed, rPC>>
    /\ UNCHANGED histVars
    /\ UNCHANGED now
    /\ UNCHANGED scoreVars

\* lines 164-210
RunInterview(a) ==
    \E qa \in QAFaults, out \in InterviewOutcomes : RunInterviewAs(a, qa, out)

\* mutant of CompleteAnalyst: the status is set without waiting for the
\* interview the thread is in, and the rest of the roster is dropped
CompleteAnalystEarly(a) ==
    /\ wPC[a] \in {"loop", "begin", "run"}
    /\ analysts' = [analysts EXCEPT ![a] = "completed"]
    /\ wPC' = [wPC EXCEPT ![a] = "done"]
    /\ UNCHANGED <<experts, interviews, wRoster, wExpert>>
    /\ UNCHANGED projectVars
    /\ UNCHANGED <<oPC, nThreads, launched, elapsed, rPC>>
    /\ UNCHANGED histVars
    /\ UNCHANGED now
    /\ UNCHANGED scoreVars

\* lines 144-145: the roster is exhausted: analyst.status = 'completed'; commit
CompleteAnalyst(a) ==
    /\ wPC[a] = "loop"
    /\ RosterDone(a)
    /\ analysts' = [analysts EXCEPT ![a] = "completed"]
    /\ wPC' = [wPC EXCEPT ![a] = "done"]
    /\ UNCHANGED <<experts, interviews, wRoster, wExpert>>
    /\ UNCHANGED projectVars
    /\ UNCHANGED <<oPC, nThreads, launched, elapsed, rPC>>
    /\ UNCHANGED histVars
    /\ UNCHANGED now
    /\ UNCHANGED scoreVars

\* lines 117 and 147-148: expert_data.get on an item that is not a dict raises;
\* the exception is logged and the thread returns
FailAnalyst(a) ==
    /\ wPC[a] = "loop"
    /\ ~RosterDone(a)
    /\ CurrentItem(a) = BadItem
    /\ wPC' = [wPC EXCEPT ![a] = "failed"]
    /\ UNCHANGED <<analysts, experts, interviews, wRoster, wExpert>>
    /\ UNCHANGED projectVars
    /\ UNCHANGED <<oPC, nThreads, launched, elapsed, rPC>>
    /\ UNCHANGED histVars
    /\ UNCHANGED now
    /\ UNCHANGED scoreVars

\* ------------------------------------------------------------ web handlers
\* routes.py lines 67-68: if notes: project.human_notes = notes
NotesAfter(notes, old) == IF notes # "" THEN notes ELSE old

\* mutant of StatusAfter: a modify sends the project back to interviewing
StatusAfterModifyReplans(action, st) ==
    CASE action = "approve" -> IF st = "reviewing" THEN "completed" ELSE st
      [] action = "stop" -> "stopped"
      [] action = "modify" -> "interviewing"
      [] OTHER -> st

\* routes.py lines 70-79: approve is guarded by the status, stop is not
StatusAfter(action, st) ==
    CASE action = "approve" -> IF st = "reviewing" THEN "completed" ELSE st
      [] action = "stop" -> "stopped"
      [] OTHER -> st

\* routes.py lines 61-82: one request of the intervene form
HumanIntervention(action, notes) ==
    /\ human_notes' = NotesAfter(notes, human_notes)
    /\ status' = StatusAfter(action, status)
    /\ firstStop' =
         IF action = "stop" /\ firstStop = NoStop /\ oPC \in ReviewPCs \cup {"done"}
           THEN [at |-> elapsed, from |-> status, gate |-> oPC \in GatePCs]
           ELSE firstStop
    /\ UNCHANGED <<final_report, reportCalls, rosterFailed, rPC>>
    /\ UNCHANGED workerVars
    /\ UNCHANGED orchVars
    /\ UNCHANGED now
    /\ UNCHANGED scoreVars

\* mutant of ReportAllowed: the status test of line 113 is missing
ReportAllowedAnyStatus(st) == CompletedInterviews # {}

\* routes.py lines 113-122: the request goes on to the generator
ReportAllowed(st) == st \in {"completed", "reviewing"} /\ CompletedInterviews # {}

\* routes.py lines 111-122: a request that is refused changes nothing
RequestReport ==
    /\ rPC = "idle"
    /\ rPC' = IF ReportAllowed(status) THEN "generating" ELSE "idle"
    /\ UNCHANGED projectVars
    /\ UNCHANGED workerVars
    /\ UNCHANGED orchVars
    /\ UNCHANGED histVars
    /\ UNCHANGED now
    /\ UNCHANGED scoreVars

\* routes.py lines 124-142: project.final_report = ...; commit
WriteRequestedReport ==
    /\ rPC = "generating"
    /\ \E out \in ReportOutcomes : final_report' = StoreReport(out, final_report)
    /\ rPC' = "idle"
    /\ UNCHANGED <<status, human_notes>>
    /\ UNCHANGED histVars
    /\ UNCHANGED workerVars
    /\ UNCHANGED orchVars
    /\ UNCHANGED now
    /\ UNCHANGED scoreVars

\* ------------------------------------------------------------ status query
\* the quotient of Python's true division, kept exact as a fraction
\* (floating-point rounding is not part of the model)
Quotient(n, d) == [num |-> n, den |-> d]
\* x * 100
Times100(x) == [num |-> x.num * 100, den |-> x.den]
\* min(100, x)
Min100(x) == IF x.num > 100 * x.den THEN Quotient(100, 1) ELSE x
\* max(1, n)
Max1(n) == IF n > 1 THEN n ELSE 1
\* x == y, x <= y on fractions with positive denominators
SameValue(x, y) == x.num * y.den = y.num * x.den
AtMost(x, y) == x.num * y.den <= y.num * x.den

\* routes.py lines 48-52 and 148-156: len(interviews) and the number of them
\* with status 'completed'
AllInterviews ==
    {<<a, k>> \in AnalystIds \X InterviewSlots : k <= Len(interviews[a])}
total_interviews == Cardinality(AllInterviews)
completed_interviews == Cardinality(CompletedInterviews)

\* mutant of progress: the page rounds down to a whole percentage
progressWholePercent(completed, total) ==
    IF total > 0 THEN Quotient((completed * 100) \div total, 1) ELSE Quotient(0, 1)

\* routes.py line 53 (project_status):
\* (completed_interviews / total_interviews * 100) if total_interviews > 0 else 0
progress(completed, total) ==
    IF total > 0 THEN Times100(Quotient(completed, total)) ELSE Quotient(0, 1)

\* routes.py line 156 (api_project_status):
\* min(100, completed / max(1, len(interviews)) * 100)
total_progress(completed, total) ==
    Min100(Times100(Quotient(completed, Max1(total))))

\* ------------------------------------------------------------ report generator
\* ai_agents.py line 257: if credibility_data.get('overall_credibility'):
\* None is falsy, and so is the number 0
Truthy(score) == score # NoScore /\ score # 0

\* ai_agents.py lines 247-261: the loop over all_interviews
RECURSIVE total_credibility(_)
total_credibility(scores) ==
    IF scores = <<>> THEN 0
    ELSE (IF Truthy(Head(scores)) THEN Head(scores) ELSE 0)
             + total_credibility(Tail(scores))

RECURSIVE credible_count(_)
credible_count(scores) ==
    IF scores = <<>> THEN 0
    ELSE (IF Truthy(Head(scores)) THEN 1 ELSE 0) + credible_count(Tail(scores))

\* ai_agents.py line 279:
\* total_credibility / credible_count if credible_count > 0 else 0.8
AverageCredibility(scores) ==
    IF credible_count(scores) > 0
      THEN Quotient(total_credibility(scores), credible_count(scores) * ScoreUnit)
      ELSE Quotient(8, 10)

\* ai_agents.py lines 242-279 for the interviews it is given
ComputeAverage ==
    /\ avg_credibility = NotComputed
    /\ avg_credibility' = AverageCredibility(all_interviews)
    /\ UNCHANGED all_interviews
    /\ UNCHANGED projectVars
    /\ UNCHANGED workerVars
    /\ UNCHANGED orchVars
    /\ UNCHANGED histVars
    /\ UNCHANGED <<rPC, now>>

\* ------------------------------------------------------------ specification
\* start_research_workflow up to the review gate
Prepare(maxN) ==
    \/ StartWorkflow
    \/ GenerateAnalysts(maxN)
    \/ SetInterviewing
    \/ LaunchThread
    \/ JoinThreads
    \/ SetReviewing

\* _wait_for_human_review
ReviewGate ==
    \/ GateCheck
    \/ GateSleep
    \/ GateReturn

\* start_research_workflow after the gate, with _generate_final_report
Compile ==
    \/ AfterGate
    \/ CompileRead
    \/ CompileWrite
    \/ FinishWorkflow

\* _conduct_analyst_interviews with _conduct_single_interview
Worker(a, maxE) ==
    \/ GenerateExperts(a, maxE)
    \/ LookupExpert(a)
    \/ CreateInterview(a)
    \/ BeginInterview(a)
    \/ RunInterview(a)
    \/ CompleteAnalyst(a)
    \/ FailAnalyst(a)

Handlers ==
    \/ \E action \in ActionInputs, notes \in NoteInputs :
          HumanIntervention(action, notes)
    \/ RequestReport
    \/ WriteRequestedReport

\* the whole life of a project
Next ==
    \/ Prepare(LifeAnalysts)
    \/ ReviewGate
    \/ Compile
    \/ \E a \in AnalystIds : Worker(a, LifeExperts)
    \/ Handlers

Spec == Init /\ [][Next]_vars

\* the fan-out and the join with fuller rosters: the workflow up to the moment
\* the review gate is entered, the handlers at any time
FanOutNext ==
    \/ Prepare(Cardinality(AnalystIds))
    \/ \E a \in AnalystIds : Worker(a, MaxExperts)
    \/ Handlers

FanOutSpec == Init /\ [][FanOutNext]_vars

\* the interleaving the threads of the process get: every thread that can
\* take a step eventually takes one (each generator call returns)
FanOutFairSpec ==
    /\ FanOutSpec
    /\ WF_vars(Prepare(Cardinality(AnalystIds)))
    /\ \A a \in AnalystIds : WF_vars(Worker(a, MaxExperts))

\* the whole life under the same scheduling: the orchestrator thread and every
\* analyst thread keep running; requests of the handlers may or may not come
LifeFairSpec ==
    /\ Spec
    /\ WF_vars(Prepare(LifeAnalysts) \/ ReviewGate \/ Compile)
    /\ \A a \in AnalystIds : WF_vars(Worker(a, LifeExperts))

\* time passes between two steps of the program
Tick ==
    /\ now < MaxClock
    /\ now' = now + 1
    /\ UNCHANGED projectVars
    /\ UNCHANGED workerVars
    /\ UNCHANGED orchVars
    /\ UNCHANGED histVars
    /\ UNCHANGED rPC
    /\ UNCHANGED scoreVars

\* the fan-out of short expert rosters with the clock running: the specification
\* of what the timestamps of the Interview rows can be
TimedNext ==
    \/ Prepare(Cardinality(AnalystIds))
    \/ \E a \in AnalystIds : Worker(a, LifeExperts)
    \/ Tick

TimedSpec == Init /\ [][TimedNext]_vars

\* generate_final_report called with any list of at most MaxScored completed
\* interviews: the specification of the aggregate score
ScoreInit ==
    /\ WorkflowInit
    /\ all_interviews \in SeqsUpTo(ScoreInputs, MaxScored)
    /\ avg_credibility = NotComputed

ScoreSpec == ScoreInit /\ [][ComputeAverage]_vars

\* ------------------------------------------------------------ properties
\* start_research_workflow has written 'reviewing' (lines 70-72)
Reviewed == oPC \in ReviewPCs \cup {"done"}

\* the rows of Interview
InterviewRows ==
    {interviews[a][k] : <<a, k>> \in
        {p \in AnalystIds \X InterviewSlots : p[2] <= Len(interviews[p[1]])}}

\* a thread is inside _conduct_analyst_interviews
Running(a) == wPC[a] \notin {"idle", "done", "failed"}

\* the graph of section 4.3, 'initialized' being the state it calls created
StatusEdges ==
    {<<"initialized", "analyzing">>, <<"analyzing", "interviewing">>,
     <<"interviewing", "reviewing">>, <<"reviewing", "completed">>,
     <<"reviewing", "stopped">>}
        \cup {<<st, "error">> : st \in {"initialized", "analyzing", "interviewing",
                                       "reviewing", "completed", "stopped"}}

\* some request of the intervene form is served by this step
SomeIntervention ==
    \E action \in ActionInputs, notes \in NoteInputs :
        HumanIntervention(action, notes)

C2_StatusFollowsGraph ==
    [][status' # status => <<status, status'>> \in StatusEdges]_vars

\* C3 (as claimed): an intervention (approve, modify or stop) served while the
\* status is not 'reviewing' leaves the status unchanged.
C3_InterventionOnlyInReview ==
    [][(SomeIntervention /\ status # "reviewing") => status' = status]_vars

\* C4 (as claimed): once a stop written during reviewing has made the status
\* 'stopped', no later step changes the status, and no step of the
\* orchestrator writes a report.
C4_StoppedIsTerminal ==
    [][(status = "stopped" /\ firstStop.from = "reviewing")
          => (status' = "stopped" /\ (oPC' # oPC => final_report' = final_report))]_vars

\* C5 (as claimed): no analyst thread is running while the status is
\* 'reviewing' or a later state.
C5_NoWorkerPastInterviewing ==
    status \in {"reviewing", "completed", "stopped", "error"}
        => \A a \in AnalystIds : ~Running(a)

\* C6: from the moment the orchestrator has written 'reviewing', no analyst
\* thread is running, no interview is scheduled or in_progress, and no step
\* creates an interview or changes one.
C6_InterviewsStable ==
    [][Reviewed =>
          /\ \A a \in AnalystIds : ~Running(a)
          /\ \A row \in InterviewRows : row.status \in {"completed", "error"}
          /\ interviews' = interviews]_vars

\* C6 witness: the report compiler reads the interviews, one of them completed,
\* after a review in which a handler wrote the project.
C6_Witness ==
    /\ oPC = "compile_gen"
    /\ human_notes # NULL
    /\ \E row \in InterviewRows : row.status = "completed"

\* C7: whatever threads or interviews fail, the status is not set to error by
\* the fan-out, a thread that returns normally has run one interview to its
\* end for every item of its own roster, a thread fails on an item of its own
\* roster only, and the orchestrator waiting at the join always goes on to
\* write 'reviewing'.
C7_Shape ==
    /\ oPC \in {"launch", "join", "set_reviewing", "gate_check"} => status # "error"
    /\ \A a \in AnalystIds :
          /\ wPC[a] = "done" =>
                /\ Len(interviews[a]) = Len(wRoster[a])
                /\ \A k \in 1..Len(interviews[a]) :
                      interviews[a][k].status \in {"completed", "error"}
          /\ wPC[a] = "failed" => (~RosterDone(a) /\ CurrentItem(a) = BadItem)

C7_JoinUnconditional ==
    /\ []C7_Shape
    /\ (oPC = "join") ~> (oPC = "gate_check")

\* C7 witness: one thread has failed, another has run two interviews of which
\* one ended in error, and the orchestrator has written 'reviewing'.
C7_Witness ==
    /\ oPC = "gate_check"
    /\ status = "reviewing"
    /\ \E a, b \in AnalystIds :
          /\ wPC[a] = "failed"
          /\ wPC[b] = "done"
          /\ Len(interviews[b]) = 2
          /\ interviews[b][1].status = "error"
          /\ interviews[b][2].status = "completed"

\* C8: when the gate has run to its timeout and no stop was written, the
\* finished workflow has invoked the report compiler exactly once and the
\* status is 'completed'.
C8_TimeoutCompletes ==
    (oPC = "done" /\ elapsed >= ReviewTimeout /\ firstStop = NoStop)
        => (reportCalls = 1 /\ status = "completed")

\* C8 witness: a project nobody touched, finished through the timeout, with a
\* report.
C8_Witness ==
    /\ oPC = "done"
    /\ elapsed >= ReviewTimeout
    /\ firstStop = NoStop
    /\ human_notes = NULL
    /\ rPC = "idle"
    /\ final_report = "generated"
    /\ status = "completed"

\* C9: when a stop is written to a project in reviewing while the gate waits,
\* the gate has returned at most one poll interval after the write and the
\* report compiler is never invoked.
C9_StopEndsGate ==
    (firstStop.from = "reviewing" /\ firstStop.gate)
        => /\ reportCalls = 0
           /\ oPC \notin GatePCs => elapsed - firstStop.at <= PollInterval

\* C9 witness: a stop written during the second sleep of the gate, the
\* workflow finished one poll interval later.
C9_Witness ==
    /\ firstStop.from = "reviewing"
    /\ firstStop.gate
    /\ firstStop.at = PollInterval
    /\ elapsed = firstStop.at + PollInterval
    /\ oPC = "done"
    /\ status = "stopped"

\* C10 (as claimed): human_notes changes only in a step taken while the status
\* is 'reviewing'.
C10_NotesOnlyInReview ==
    [][status # "reviewing" => human_notes' = human_notes]_vars

\* the natural key of the Expert row an interview refers to
ExpertKeyOf(eid) == (CHOOSE e \in experts : e.id = eid).key

\* C11 (as claimed): whatever the interleaving of the analyst threads, at most
\* one Expert row is stored per key (name, expertise_area), and interviews of
\* the same expert key refer to the same expert id.
C11_ExpertGetOrCreateIdempotent ==
    /\ \A e, f \in experts : e.key = f.key => e.id = f.id
    /\ \A r, s \in InterviewRows :
          ExpertKeyOf(r.expert_id) = ExpertKeyOf(s.expert_id)
              => r.expert_id = s.expert_id

\* generate_analysts returned the empty list: the loops of lines 37 and 57
\* ran no iteration
ZeroAnalysts == oPC \notin {"start", "gen_analysts", "aborted"} /\ nThreads = 0

\* C12 (as claimed): a workflow with zero analysts that has finished, nobody
\* having stopped it, has status 'completed', no interview and a report.
C12_ZeroAnalystsWithReport ==
    (ZeroAnalysts /\ oPC = "done" /\ firstStop = NoStop)
        => /\ status = "completed"
           /\ InterviewRows = {}
           /\ final_report # NULL

\* C12 (amended): a workflow with zero analysts never has status error, never
\* has an interview and never has a report (final_report stays null); it
\* always runs to its end, and when it has, nobody having stopped it, the
\* status is 'completed'.
C12_ZeroAnalystsShape ==
    ZeroAnalysts
        => /\ status # "error"
           /\ InterviewRows = {}
           /\ final_report = NULL
           /\ (oPC = "done" /\ firstStop = NoStop) => status = "completed"

C12_ZeroAnalystsComplete ==
    /\ []C12_ZeroAnalystsShape
    /\ ZeroAnalysts ~> (oPC = "done")

\* C12 witness: a workflow with zero analysts, finished through the timeout
\* of the gate: completed, without a report.
C12_Witness ==
    /\ ZeroAnalysts
    /\ oPC = "done"
    /\ firstStop = NoStop
    /\ status = "completed"
    /\ final_report = NULL
    /\ \A a \in AnalystIds : analysts[a] = NULL
    /\ elapsed >= ReviewTimeout
    /\ human_notes = NULL

\* C13 (as claimed): a fault in the analyst-roster generation, whether it
\* happens inside the generator or on a malformed item of its result, sets
\* the status to error and ends the workflow.
C13_RosterFaultIsError ==
    [][\A n \in 0..LifeAnalysts, fault \in {"caught", "raised"} :
          GenerateAnalystsAs(LifeAnalysts, n, fault)
              => (status' = "error" /\ oPC' = "aborted")]_vars

\* C14: while the status is error the orchestrator has ended through its
\* handler and no analyst thread was started, and a step that changes the
\* status from error is a request of the intervene form, never a step of the
\* orchestrator, an analyst thread, the review gate or the report compiler.
C14_ErrorIsTerminal ==
    /\ [](status = "error" =>
             (oPC = "aborted" /\ \A a \in AnalystIds : wPC[a] = "idle"))
    /\ [][status = "error" => (status' = "error" \/ SomeIntervention)]_vars

\* C14 witness: the status is error, the orchestrator has ended, and a
\* request of the intervene form was served without changing the status.
C14_Witness ==
    /\ status = "error"
    /\ oPC = "aborted"
    /\ human_notes # NULL

\* the Interview row an analyst thread is working on
CurrentInterview(a) == interviews[a][Len(interviews[a])]

\* C15 (as claimed): when the question or the answer generation of an
\* interview fails, the interview ends in status error and the analyst thread
\* goes back to its loop over the roster.
C15_AnswerFaultIsError ==
    [][\A a \in AnalystIds, out \in InterviewOutcomes :
          RunInterviewAs(a, "caught", out)
              => /\ interviews'[a][Len(interviews[a])].status = "error"
                 /\ wPC'[a] = "loop"]_vars

\* C16: when analyze_credibility fails during an interview (its except branch
\* returns the fixed assessment: overall_credibility 0.5, empty lists), the
\* results being otherwise well-formed, the interview ends in status
\* completed with that fixed assessment stored as its credibility_assessment,
\* and the analyst thread goes back to its loop.
C16_CredibilityFallbackCompletes ==
    [][\A a \in AnalystIds, qa \in QAFaults :
          RunInterviewAs(a, qa, "fallback")
              => /\ interviews'[a][Len(interviews[a])].status = "completed"
                 /\ interviews'[a][Len(interviews[a])].credibility_assessment
                        = "fallback"
                 /\ wPC'[a] = "loop"]_vars

\* C16 witness: an analyst thread has returned and its last interview is
\* completed with the fixed fallback assessment.
C16_Witness ==
    \E a \in AnalystIds :
        /\ wPC[a] = "done"
        /\ interviews[a] # <<>>
        /\ CurrentInterview(a).status = "completed"
        /\ CurrentInterview(a).credibility_assessment = "fallback"

\* C17: the report compiler calls the generator only when a completed
\* interview exists, and when the generator then fails (its except branch
\* returns the fixed report: empty fields, credibility_score 0.0) the compiler
\* stores that report, so final_report is non-null, and sets the status to
\* 'completed' in the same commit.
C17_ReportFallbackStored ==
    /\ [](oPC = "compile_gen" =>
             \E row \in InterviewRows : row.status = "completed")
    /\ [][CompileWriteAs("fallback")
             => /\ final_report' = "fallback"
                /\ status' = "completed"
                /\ oPC' = "finish"]_vars

\* C17 witness: a workflow that went through the timeout of the gate has
\* ended, completed, with the fixed report stored.
C17_Witness ==
    /\ oPC = "done"
    /\ elapsed >= ReviewTimeout
    /\ reportCalls = 1
    /\ final_report = "fallback"
    /\ status = "completed"
    /\ \E row \in InterviewRows : row.status = "completed"

\* C18: when the report compiler finds no interview with status completed,
\* it returns without calling the generator and without touching
\* final_report, and it has set the status to 'completed'.
C18_NoCompletedInterviews ==
    [][(/\ oPC = "compile_read"
        /\ oPC' # oPC
        /\ \A row \in InterviewRows : row.status # "completed")
          => /\ oPC' = "finish"
             /\ status' = "completed"
             /\ final_report' = final_report]_vars

\* C18 witness: the compiler has returned for a project whose only interview
\* ended in error: completed, without a report.
C18_Witness ==
    /\ oPC = "finish"
    /\ status = "completed"
    /\ final_report = NULL
    /\ \E row \in InterviewRows : row.status = "error"
    /\ \A row \in InterviewRows : row.status # "completed"

\* C19 (as claimed): once an approve has been served while the gate waits
\* (the only write of 'completed' before the gate returns), the orchestrator
\* goes on as on the timeout path: it invokes the report compiler once and
\* ends with status 'completed'.
C19_ApproveCompilesReport ==
    (status = "completed" /\ oPC \in GatePCs)
        ~> (oPC = "done" /\ reportCalls = 1 /\ status = "completed")

\* C20: a modify served while the status is 'reviewing' stores the notes it
\* carries (empty notes store nothing), leaves the status and the report
\* unchanged, and changes nothing of the orchestrator, the gate or the analyst
\* threads: the gate keeps waiting as if no request had been made.
C20_ModifyOnlyRecordsNotes ==
    [][\A notes \in NoteInputs :
          (HumanIntervention("modify", notes) /\ status = "reviewing")
              => /\ human_notes' = (IF notes = "" THEN human_notes ELSE notes)
                 /\ status' = "reviewing"
                 /\ final_report' = final_report
                 /\ UNCHANGED orchVars
                 /\ UNCHANGED workerVars
                 /\ UNCHANGED <<rPC, reportCalls>>]_vars

\* C20 witness: notes were stored while the gate waited, the gate ran to its
\* timeout, and the workflow ended completed after one call of the compiler.
C20_Witness ==
    /\ oPC = "done"
    /\ human_notes = "n1"
    /\ elapsed >= ReviewTimeout
    /\ firstStop = NoStop
    /\ reportCalls = 1
    /\ status = "completed"
    /\ final_report = "generated"

\* the positions of start_research_workflow between the analyst roster and
\* the write of 'reviewing': the status it wrote last is analyzing or
\* interviewing
FanOutPCs == {"set_interviewing", "launch", "join", "set_reviewing"}

\* C21: a stop served while the workflow is analyzing or interviewing changes
\* nothing of the orchestrator or of an analyst thread, and from a state in
\* which such a stop has made the status 'stopped' the workflow still reaches
\* the write of 'reviewing', every started thread having returned, and every
\* thread that returned normally having run an interview for each item of its
\* roster.
C21_StopOnlyAtCheckpoint ==
    /\ [][\A notes \in NoteInputs :
             (HumanIntervention("stop", notes) /\ oPC \in FanOutPCs)
                 => (UNCHANGED workerVars /\ UNCHANGED orchVars)]_vars
    /\ (status = "stopped" /\ oPC \in FanOutPCs)
          ~> /\ oPC = "gate_check"
             /\ status = "reviewing"
             /\ \A a \in 1..nThreads :
                   /\ Terminated(a)
                   /\ wPC[a] = "done" => Len(interviews[a]) = Len(wRoster[a])

\* C21 witness: the status is 'stopped' before the review, and both analyst
\* threads have run their two interviews to completion all the same.
C21_Witness ==
    /\ status = "stopped"
    /\ oPC = "set_reviewing"
    /\ nThreads = 2
    /\ \A a \in AnalystIds :
          /\ wPC[a] = "done"
          /\ Len(interviews[a]) = 2
          /\ \A k \in 1..2 : interviews[a][k].status = "completed"

\* C22: every interview row created by the thread of analyst a carries
\* analyst id a and the id of the project, so the rows of two analysts never
\* coincide.
C22_InterviewAttribution ==
    \A a \in AnalystIds :
        \A k \in 1..Len(interviews[a]) :
            /\ interviews[a][k].analyst_id = a
            /\ interviews[a][k].project_id = ProjectId
            /\ analysts[a] # NULL
            /\ \A b \in AnalystIds \ {a} :
                  \A j \in 1..Len(interviews[b]) :
                      interviews[b][j].analyst_id # interviews[a][k].analyst_id

\* C22 witness: two analyst threads have run (the two threads were started
\* together) and the review has begun with two interviews of each.
C22_Witness ==
    /\ oPC = "gate_check"
    /\ \A a \in AnalystIds : Len(interviews[a]) = 2
    /\ interviews[1][2].analyst_id = 1
    /\ interviews[2][2].analyst_id = 2

\* C23: for every interview row, completed_at is set exactly when the status
\* is completed, and when set it is not earlier than created_at.
C23_CompletedAt ==
    \A row \in InterviewRows :
        /\ (row.completed_at # NoTime) <=> (row.status = "completed")
        /\ row.completed_at # NoTime => row.completed_at >= row.created_at

\* C23 witness: an interview completed later than it was created, next to
\* one that ended in error.
C23_Witness ==
    /\ \E row \in InterviewRows :
          row.status = "completed" /\ row.completed_at > row.created_at
    /\ \E row \in InterviewRows :
          row.status = "error" /\ row.created_at > 0

\* C24 (as claimed): an analyst whose expert-roster generation failed is
\* never marked completed: it keeps the status it had, 'assigned'.
C24_RosterFailureLeavesAssigned ==
    \A a \in rosterFailed : analysts[a] = "assigned"

\* the largest number of Interview rows a project of the model can have
MaxRows == Cardinality(AnalystIds) * Cardinality(InterviewSlots)

\* what is claimed of the two progress values for one pair of counts
ProgressAgrees(completed, total) ==
    /\ SameValue(total_progress(completed, total),
                 Min100(Quotient(completed * 100, Max1(total))))
    /\ total = 0 => SameValue(total_progress(completed, total), Quotient(0, 1))
    /\ AtMost(Quotient(0, 1), total_progress(completed, total))
    /\ AtMost(total_progress(completed, total), Quotient(100, 1))
    /\ SameValue(progress(completed, total), total_progress(completed, total))

\* C25: for all counts 0 <= completed <= total, and for the counts of every
\* reachable state, the JSON endpoint's value is min(100, completed /
\* max(1, total) * 100), it is 0 when there is no interview, it lies in
\* [0, 100], and the project page computes the same value.
C25_Progress ==
    /\ completed_interviews <= total_interviews
    /\ ProgressAgrees(completed_interviews, total_interviews)
    /\ \A total \in 0..MaxRows : \A completed \in 0..total :
          ProgressAgrees(completed, total)

\* C25 witness: three interviews, two of them completed: both queries give
\* 200/3.
C25_Witness ==
    /\ total_interviews = 3
    /\ completed_interviews = 2
    /\ SameValue(progress(completed_interviews, total_interviews), Quotient(200, 3))
    /\ SameValue(total_progress(completed_interviews, total_interviews),
                 Quotient(200, 3))

\* the sum and the number of the scores that parsed, a parsed 0 included
RECURSIVE SumParsed(_)
SumParsed(scores) ==
    IF scores = <<>> THEN 0
    ELSE (IF Head(scores) # NoScore THEN Head(scores) ELSE 0)
             + SumParsed(Tail(scores))

RECURSIVE CountParsed(_)
CountParsed(scores) ==
    IF scores = <<>> THEN 0
    ELSE (IF Head(scores) # NoScore THEN 1 ELSE 0) + CountParsed(Tail(scores))

\* C26 (as claimed): the aggregate score the report generator computes is the
\* mean of the scores that parsed (a parsed 0 included), 0.8 when none parsed,
\* and lies in [0, 1].
C26_AggregateIsMeanOfParsed ==
    avg_credibility # NotComputed
        => /\ SameValue(avg_credibility,
                        IF CountParsed(all_interviews) > 0
                          THEN Quotient(SumParsed(all_interviews),
                                        CountParsed(all_interviews) * ScoreUnit)
                          ELSE Quotient(8, 10))
           /\ AtMost(Quotient(0, 1), avg_credibility)
           /\ AtMost(avg_credibility, Quotient(1, 1))

\* C27: every interview row is handed to _conduct_single_interview at most
\* once, and exactly once as soon as it has left 'scheduled'; the thread that
\* created a row is the only one inside a run of it; and a row that is
\* completed or in error is never run again.
RunsOnce(a, k) ==
    /\ interviews[a][k].runs <= 1
    /\ interviews[a][k].runs = 0 <=> interviews[a][k].status = "scheduled"
    /\ interviews[a][k].status = "in_progress"
          => (k = Len(interviews[a]) /\ wPC[a] = "run")

C27_NoRetryNoDoubleRun ==
    /\ [](\A a \in AnalystIds : \A k \in 1..Len(interviews[a]) : RunsOnce(a, k))
    /\ [][\A a \in AnalystIds : \A k \in 1..Len(interviews[a]) :
             interviews[a][k].status \in {"completed", "error"}
                 => interviews'[a][k] = interviews[a][k]]_vars

\* C27 witness: a thread has returned; its first interview ended in error
\* after one run and was left at that, its second was run once and completed.
C27_Witness ==
    \E a \in AnalystIds :
        /\ wPC[a] = "done"
        /\ Len(interviews[a]) = 2
        /\ interviews[a][1].status = "error"
        /\ interviews[a][1].runs = 1
        /\ interviews[a][2].status = "completed"
        /\ interviews[a][2].runs = 1

\* C28: the review gate never writes the project. Every step the orchestrator
\* takes inside _wait_for_human_review (a poll, a sleep, the return) leaves
\* the project's status, notes and report as they are, and when the gate
\* returns with the status still 'reviewing' it does so because the timeout
\* has run out, the status being left for the caller to change.
C28_GateWritesNothing ==
    /\ [][(oPC \in {"gate_check", "gate_sleep", "gate_final"}
              /\ <<oPC, elapsed>>' # <<oPC, elapsed>>)
            => UNCHANGED <<status, human_notes, final_report>>]_vars
    /\ [][(oPC = "gate_final" /\ oPC' = "post_gate" /\ status = "reviewing")
            => (status' = "reviewing" /\ elapsed >= ReviewTimeout)]_vars

\* C28 witness: the gate has returned on the timeout; the project is still
\* 'reviewing', has no report, and keeps the notes a reviewer left meanwhile.
C28_Witness ==
    /\ oPC = "post_gate"
    /\ elapsed >= ReviewTimeout
    /\ status = "reviewing"
    /\ human_notes # NULL
    /\ final_report = NULL

\* the moves of an interview's status from one stored state to the next
InterviewEdges ==
    {<<"scheduled", "in_progress">>, <<"in_progress", "completed">>,
     <<"in_progress", "error">>}

\* C29: an interview's status only moves scheduled -> in_progress ->
\* completed or scheduled -> in_progress -> error. Rows are never removed and
\* a new row starts 'scheduled'; every change of a row's status is one of
\* those three moves, so completed and error are never left; and the
\* generation calls of an interview start from the stored status in_progress.
C29_InterviewStatusMoves ==
    /\ [][\A a \in AnalystIds :
             /\ Len(interviews'[a]) >= Len(interviews[a])
             /\ \A k \in 1..Len(interviews'[a]) :
                   IF k <= Len(interviews[a])
                     THEN \/ interviews'[a][k].status = interviews[a][k].status
                          \/ <<interviews[a][k].status, interviews'[a][k].status>>
                                \in InterviewEdges
                     ELSE interviews'[a][k].status = "scheduled"]_vars
    /\ [][\A a \in AnalystIds, qa \in QAFaults, out \in InterviewOutcomes :
             RunInterviewAs(a, qa, out)
                 => CurrentInterview(a).status = "in_progress"]_vars

\* C29 witness: all three moves have happened: one analyst has a completed
\* interview and is inside the generation calls of the next, stored as
\* in_progress; an interview of the other analyst has ended in error.
C29_Witness ==
    \E a, b \in AnalystIds :
        /\ a # b
        /\ wPC[a] = "run"
        /\ Len(interviews[a]) = 2
        /\ interviews[a][1].status = "completed"
        /\ interviews[a][2].status = "in_progress"
        /\ Len(interviews[b]) >= 1
        /\ interviews[b][1].status = "error"

\* C30: the interviews of one analyst run one after the other. In every
\* reachable state at most one interview of an analyst is in_progress, and
\* every interview of an analyst but the latest has ended, in completed or in
\* error: the next one is created only after that.
C30_SequentialPerAnalyst ==
    \A a \in AnalystIds :
        /\ Cardinality({k \in 1..Len(interviews[a]) :
                           interviews[a][k].status = "in_progress"}) <= 1
        /\ \A k \in 1..(Len(interviews[a]) - 1) :
               interviews[a][k].status \in {"completed", "error"}

\* C30 witness: both analysts are inside their second interview at the same
\* time, each with its first interview ended and nothing else in progress.
C30_Witness ==
    \A a \in AnalystIds :
        /\ wPC[a] = "run"
        /\ Len(interviews[a]) = 2
        /\ interviews[a][1].status \in {"completed", "error"}
        /\ interviews[a][2].status = "in_progress"

\* the statuses in which a workflow is over
FinalStatuses == {"completed", "stopped", "error"}

\* C31: every started workflow terminates. With every generation call
\* returning and the threads scheduled, the project's status is from some
\* point on always one of completed, stopped, error, the workflow thread has
\* returned by then (normally or through its handler), and this whatever stages fail and whatever requests of
\* the reviewer come in between.
C31_WorkflowTerminates ==
    <>[](status \in FinalStatuses /\ oPC \in {"done", "aborted"})

\* C31 witness: a workflow that is over after a failure and a request: the
\* thread has returned, the only interview ended in error, the reviewer left
\* notes, and the status is final.
C31_Witness ==
    /\ oPC = "done"
    /\ status \in FinalStatuses
    /\ human_notes # NULL
    /\ \E a \in AnalystIds :
          /\ Len(interviews[a]) = 1
          /\ interviews[a][1].status = "error"

\* C32: an analyst's status becomes 'completed' only by a step of its own
\* thread, taken at the end of the loop over its roster; and whenever an
\* analyst is 'completed' its thread has returned, there is one interview
\* for each expert of its roster, and none of them is scheduled or
\* in_progress.
C32_CompletedAfterRoster ==
    /\ [](\A a \in AnalystIds :
            analysts[a] = "completed"
               => /\ wPC[a] = "done"
                  /\ Len(interviews[a]) = Len(wRoster[a])
                  /\ \A k \in 1..Len(interviews[a]) :
                        interviews[a][k].status \notin {"scheduled", "in_progress"})
    /\ [][\A a \in AnalystIds :
             (analysts'[a] = "completed" /\ analysts[a] # "completed")
                => /\ wPC[a] = "loop"
                   /\ wPC'[a] = "done"
                   /\ \A b \in AnalystIds \ {a} :
                         wPC'[b] = wPC[b] /\ analysts'[b] = analysts[b]]_vars

\* C32 witness: one analyst is completed after its two experts, one interview
\* completed and one in error, while the other analyst, not completed, is
\* still inside an interview.
C32_Witness ==
    \E a, b \in AnalystIds :
        /\ analysts[a] = "completed"
        /\ Len(wRoster[a]) = 2
        /\ interviews[a][1].status = "completed"
        /\ interviews[a][2].status = "error"
        /\ analysts[b] = "assigned"
        /\ wPC[b] = "run"

\* C33 (as claimed): report regeneration never changes the status, never sets
\* final_report back to null, and changes final_report only when, at that
\* moment, the status is completed or reviewing and the project has a
\* completed interview.
C33_RegenerationGuarded ==
    [][rPC' # rPC
         => /\ status' = status
            /\ final_report' # final_report
                  => /\ final_report' # NULL
                     /\ status \in {"completed", "reviewing"}
                     /\ CompletedInterviews # {}]_vars

\* what does hold of the regeneration request: it never changes the status or
\* the notes, never sets final_report back to null, and changes final_report
\* only after it was let through, which happens only if the status it read
\* was completed or reviewing and the project had a completed interview then;
\* the project still has one when the report is written.
RegenerationGuardedAtRead ==
    [][rPC' # rPC
         => /\ status' = status
            /\ human_notes' = human_notes
            /\ rPC' = "generating"
                  => /\ status \in {"completed", "reviewing"}
                     /\ CompletedInterviews # {}
                     /\ final_report' = final_report
            /\ final_report' # final_report
                  => /\ final_report' # NULL
                     /\ rPC = "generating"
                     /\ CompletedInterviews # {}]_vars

====
